---- MODULE Spec2Model ----
(***************************************************************************)
(* Request handlers of the SaaS landing API (src/main.py) over the         *)
(* document store (database.create_document / database.get_documents).     *)
(* A request is a process; its steps are the persistence calls it makes,   *)
(* so two requests interleave at the granularity of those calls.           *)
(***************************************************************************)
EXTENDS Integers, Sequences, FiniteSets, TLC

\* ------------------------------------------------------------------ bounds
\* Number of requests served in one behaviour.
MaxReq == 3
\* Number of blog posts created out-of-band (not through this API).
MaxExternal == 1
\* Number of requests served where only blog, contact and diagnostic
\* requests arrive (SpecSite), and where the store may fail (SpecFail).
MaxSiteReq == 2
MaxFailReq == 2

Req == 1..MaxReq

\* ------------------------------------------------------------- input sets
None == "None"

\* pydantic EmailStr: the strings accepted as email addresses.
EmailStr == {"ada@x.com", "bob@x.com"}

RegisterBodies ==
    { [name |-> "Ada", email |-> "ada@x.com", password |-> "secret"],
      [name |-> "Bob", email |-> "ada@x.com", password |-> "hunter2"],
      [name |-> "Bob", email |-> "bob@x.com", password |-> "secret"],
      [name |-> "Eve", email |-> "not-an-email", password |-> "secret"] }

LoginBodies ==
    [email : EmailStr, password : {"secret", "hunter2"}]
        \cup { [email |-> "ada@x.com"] }

ContactBodies ==
    { [name |-> "Ada", email |-> "ada@x.com", message |-> "hello"],
      [name |-> "Ada", email |-> "ada@x.com", subject |-> "hi", message |-> "hello"],
      [name |-> "Ada", email |-> "ada@x.com", subject |-> "hi"],
      [name |-> "Ada", email |-> "not-an-email", message |-> "hello"] }

\* Blog posts written to the store by other means than this API.
ExternalPosts ==
    { [title |-> "Draft", slug |-> "draft", content |-> "wip", author |-> "Ann",
       tags |-> <<"draft">>, published |-> FALSE],
      [title |-> "Untagged", slug |-> "untagged", content |-> "text", author |-> "Ann",
       published |-> TRUE],
      [title |-> "Legacy", slug |-> "legacy", content |-> "old", author |-> "Ann",
       tags |-> <<"misc">>] }

\* ------------------------------------------------------------------ state
\* The store is configured and connected at startup (db is not None).
VARIABLES
    db,       \* collection name -> documents, in the store's native order
    nextId,   \* the store's identifier generator
    req       \* request slot -> the request's record (idle, in flight or done)

vars == <<db, nextId, req>>

Collections == {"user", "blogpost", "contactmessage"}

Idle == [kind |-> "idle", pc |-> "idle"]

\* ---------------------------------------------------------------- utility
\* hash_password: SHA-256 hex digest, taken as deterministic and
\* collision-free on the passwords of the model.
hash_password(password) == <<"sha256", password>>

\* dict.get(key, default)
Get(d, key, default) == IF key \in DOMAIN d THEN d[key] ELSE default

Take(s, n) == IF Len(s) <= n THEN s ELSE SubSeq(s, 1, n)

InsertAt(s, i, d) == SubSeq(s, 1, i - 1) \o <<d>> \o SubSeq(s, i, Len(s))

\* ---------------------------------------------------- persistence adapter
\* A document matches a filter when it carries every field of the filter
\* with the filter's value.
Matches(d, filter) == \A k \in DOMAIN filter : k \in DOMAIN d /\ d[k] = filter[k]

\* get_documents(collection, filter, limit): the matching documents in
\* store-native order, at most `limit` of them (limit 0: no limit).
get_documents(collection, filter, limit) ==
    LET found == SelectSeq(db[collection], LAMBDA d : Matches(d, filter))
    IN  IF limit = 0 THEN found ELSE Take(found, limit)

\* create_document(collection, data): stores the record under a fresh
\* identifier; the new document's place in the native order (pos) is the
\* store's choice. The identifier returned is nextId.
create_document(collection, data, pos) ==
    /\ pos \in 1..(Len(db[collection]) + 1)
    /\ db' = [db EXCEPT ![collection] = InsertAt(@, pos, [id |-> nextId] @@ data)]
    /\ nextId' = nextId + 1

\* ------------------------------------------------------------ validation
RequiredFields(kind) ==
    CASE kind = "register" -> {"name", "email", "password"}
      [] kind = "login"    -> {"email", "password"}
      [] kind = "contact"  -> {"name", "email", "message"}
      [] OTHER             -> {}

\* RegisterRequest / LoginRequest / ContactRequest: required fields are
\* present and the email field is an EmailStr.
Valid(kind, body) ==
    /\ RequiredFields(kind) \subseteq DOMAIN body
    /\ "email" \in RequiredFields(kind) => body.email \in EmailStr

ValidationError == [status |-> 422, detail |-> "validation error"]

\* ---------------------------------------------------------------- schemas
\* schemas.User as built by register
UserSchema(name, email, password_hash) ==
    [name |-> name, email |-> email, password_hash |-> password_hash,
     avatar_url |-> None, is_active |-> TRUE]

\* schemas.ContactMessage as built by contact
ContactMessageSchema(body) ==
    [name |-> body.name, email |-> body.email,
     subject |-> Get(body, "subject", None), message |-> body.message]

\* Mutation of Examples: a third example post.
Examples_Three(now) ==
    << [title |-> "Launching our pastel fintech platform",
        slug |-> "launching-pastel-fintech", content |-> "We are excited...",
        author |-> "Team", tags |-> <<"announcement", "fintech">>,
        published |-> TRUE, published_at |-> now],
       [title |-> "How we price simply and fairly",
        slug |-> "simple-fair-pricing", content |-> "No hidden fees...",
        author |-> "Team", tags |-> <<"pricing", "product">>,
        published |-> TRUE, published_at |-> now],
       [title |-> "Our roadmap",
        slug |-> "roadmap", content |-> "What comes next...",
        author |-> "Team", tags |-> <<"product">>,
        published |-> TRUE, published_at |-> now] >>

\* The two example posts of list_blogs; `now` stands for datetime.utcnow().
Examples(now) ==
    << [title |-> "Launching our pastel fintech platform",
        slug |-> "launching-pastel-fintech",
        summary |-> "A soft, modern take on digital banking.",
        content |-> "We are excited to introduce a gentle, human fintech experience...",
        author |-> "Team", tags |-> <<"announcement", "fintech">>,
        published |-> TRUE, published_at |-> now],
       [title |-> "How we price simply and fairly",
        slug |-> "simple-fair-pricing",
        summary |-> "Transparent plans that scale with you.",
        content |-> "No hidden fees. Just clear tiers designed for growth...",
        author |-> "Team", tags |-> <<"pricing", "product">>,
        published |-> TRUE, published_at |-> now] >>

SeedSlugs == {"launching-pastel-fintech", "simple-fair-pricing"}

\* BlogOut(...) as list_blogs builds it from a stored document
BlogOut(p) ==
    [title |-> Get(p, "title", None), slug |-> Get(p, "slug", None),
     summary |-> Get(p, "summary", None), content |-> Get(p, "content", None),
     author |-> Get(p, "author", None), tags |-> Get(p, "tags", <<>>),
     published |-> Get(p, "published", TRUE),
     published_at |-> Get(p, "published_at", None)]

MapPosts(posts) == [i \in 1..Len(posts) |-> BlogOut(posts[i])]

\* ------------------------------------------------------- request plumbing
\* Requests arrive into the lowest idle slot, so slot order is arrival order.
Arrives(r) == req[r].pc = "idle" /\ \A q \in Req : q < r => req[q].pc # "idle"

Done(r) == req[r].pc = "done"

InFlight(r) == req[r].pc \notin {"idle", "done"}

Finish(r, kind, body, resp, calls, writes) ==
    req' = [req EXCEPT ![r] = [kind |-> kind, body |-> body, pc |-> "done",
                               resp |-> resp, calls |-> calls, writes |-> writes]]

Init ==
    /\ db = [c \in Collections |-> <<>>]
    /\ nextId = 1
    /\ req = [r \in Req |-> Idle]

\* ------------------------------------------------------------- responses
EmailAlreadyRegistered == [status |-> 400, detail |-> "Email already registered"]

InvalidCredentials == [status |-> 401, detail |-> "Invalid credentials"]

InternalServerError == [status |-> 500, detail |-> "Internal Server Error"]

\* datetime.utcnow() as taken by request r: an opaque timestamp.
utcnow(r) == ToString(r)

\* -------------------------------------------------------------- register
\* Mutation of RegisterRejects: the existence check never rejects.
RegisterRejects_Never(existing) == FALSE

\* `if existing:` of register
RegisterRejects(existing) == existing # <<>>

\* register, up to its first persistence call: validation, the existence
\* check and the conflict error.
RegisterCheck(r, body) ==
    /\ Arrives(r)
    /\ UNCHANGED <<db, nextId>>
    /\ IF ~Valid("register", body)
       THEN Finish(r, "register", body, ValidationError, 0, 0)
       ELSE LET existing == get_documents("user", [email |-> body.email], 1)
            IN  IF RegisterRejects(existing)
                THEN Finish(r, "register", body, EmailAlreadyRegistered, 1, 0)
                ELSE req' = [req EXCEPT ![r] = [kind |-> "register", body |-> body,
                                                pc |-> "insert", calls |-> 1, writes |-> 0]]

\* register, from the construction of the User document to the response.
RegisterInsert(r, pos) ==
    /\ req[r].kind = "register" /\ req[r].pc = "insert"
    /\ LET body == req[r].body
           user_doc == UserSchema(body.name, body.email, hash_password(body.password))
       IN  /\ create_document("user", user_doc, pos)
           /\ Finish(r, "register", body,
                     [status |-> 200, ok |-> TRUE, user_id |-> nextId],
                     req[r].calls + 1, req[r].writes + 1)

\* ----------------------------------------------------------------- login
\* Mutation of LoginResponse: an unknown email gets an error of its own.
LoginResponse_Leaky(users, body) ==
    IF users = <<>>
    THEN [status |-> 404, detail |-> "User not found"]
    ELSE LET user == users[1]
         IN  IF Get(user, "password_hash", None) # hash_password(body.password)
             THEN InvalidCredentials
             ELSE [status |-> 200, ok |-> TRUE,
                   name |-> Get(user, "name", None), email |-> Get(user, "email", None)]

\* login after its lookup: `users` is the result of the find.
LoginResponse(users, body) ==
    IF users = <<>>
    THEN InvalidCredentials
    ELSE LET user == users[1]
         IN  IF Get(user, "password_hash", None) # hash_password(body.password)
             THEN InvalidCredentials
             ELSE [status |-> 200, ok |-> TRUE,
                   name |-> Get(user, "name", None), email |-> Get(user, "email", None)]

Login(r, body) ==
    /\ Arrives(r)
    /\ UNCHANGED <<db, nextId>>
    /\ IF ~Valid("login", body)
       THEN Finish(r, "login", body, ValidationError, 0, 0)
       ELSE LET users == get_documents("user", [email |-> body.email], 1)
            IN  req' = [req EXCEPT ![r] = [kind |-> "login", body |-> body, pc |-> "done",
                                           resp |-> LoginResponse(users, body),
                                           calls |-> 1, writes |-> 0, users |-> users]]

\* ------------------------------------------------------------------ blogs
PublishedFilter == [published |-> TRUE]

\* Mutation of NeedsSeed: the listing seeds whatever it found.
NeedsSeed_Always(posts) == TRUE

\* `if not posts:` of list_blogs
NeedsSeed(posts) == posts = <<>>

BlogResponse(posts) == [status |-> 200, body |-> MapPosts(posts)]

\* list_blogs, up to the decision to seed. The examples are built once,
\* with the time of that moment (now), before the first insert.
ListFind(r) ==
    /\ Arrives(r)
    /\ UNCHANGED <<db, nextId>>
    /\ LET posts == get_documents("blogpost", PublishedFilter, 0)
       IN  IF NeedsSeed(posts)
           THEN req' = [req EXCEPT ![r] = [kind |-> "list", body |-> <<>>, pc |-> "seed",
                                           calls |-> 1, writes |-> 0,
                                           now |-> utcnow(r), i |-> 1]]
           ELSE Finish(r, "list", <<>>, BlogResponse(posts), 1, 0)

\* One turn of `for ex in examples: create_document("blogpost", ex)`.
ListSeed(r, pos) ==
    /\ req[r].kind = "list" /\ req[r].pc = "seed"
    /\ create_document("blogpost", Examples(req[r].now)[req[r].i], pos)
    /\ req' = [req EXCEPT ![r].calls = @ + 1, ![r].writes = @ + 1,
                          ![r].i = @ + 1,
                          ![r].pc = IF req[r].i = Len(Examples(req[r].now))
                                    THEN "requery" ELSE "seed"]

\* The re-query after seeding, the mapping and the response.
ListRequery(r) ==
    /\ req[r].kind = "list" /\ req[r].pc = "requery"
    /\ UNCHANGED <<db, nextId>>
    /\ LET posts == get_documents("blogpost", PublishedFilter, 0)
       IN  Finish(r, "list", <<>>, BlogResponse(posts), req[r].calls + 1, req[r].writes)

\* ---------------------------------------------------------------- contact
ContactThanks == "Thanks for reaching out! We'll get back to you soon."

\* Mutation of Contact: a submission equal to a stored one is acknowledged
\* with the stored document's identifier and not stored again.
Contact_Dedup(r, body, pos) ==
    /\ Arrives(r)
    /\ IF ~Valid("contact", body)
       THEN /\ UNCHANGED <<db, nextId>>
            /\ Finish(r, "contact", body, ValidationError, 0, 0)
       ELSE LET same == get_documents("contactmessage", ContactMessageSchema(body), 1)
            IN  IF same # <<>>
                THEN /\ UNCHANGED <<db, nextId>>
                     /\ Finish(r, "contact", body,
                               [status |-> 200, ok |-> TRUE, message |-> ContactThanks,
                                id |-> same[1].id], 1, 0)
                ELSE /\ create_document("contactmessage", ContactMessageSchema(body), pos)
                     /\ Finish(r, "contact", body,
                               [status |-> 200, ok |-> TRUE, message |-> ContactThanks,
                                id |-> nextId], 1, 1)

Contact(r, body, pos) ==
    /\ Arrives(r)
    /\ IF ~Valid("contact", body)
       THEN /\ UNCHANGED <<db, nextId>>
            /\ Finish(r, "contact", body, ValidationError, 0, 0)
       ELSE /\ create_document("contactmessage", ContactMessageSchema(body), pos)
            /\ Finish(r, "contact", body,
                      [status |-> 200, ok |-> TRUE, message |-> ContactThanks,
                       id |-> nextId], 1, 1)

\* ---------------------------------------------------------- root & health
read_root(r) ==
    /\ Arrives(r)
    /\ UNCHANGED <<db, nextId>>
    /\ Finish(r, "root", <<>>,
              [status |-> 200, message |-> "SaaS Landing API running"], 0, 0)

\* db.list_collection_names(): the collections that hold a document. There
\* are three collections, so the [:10] slice of test_database keeps them all.
list_collection_names == {c \in Collections : db[c] # <<>>}

\* database_url and database_name depend on the environment alone and are
\* left out of the diagnostic object.
test_database(r) ==
    /\ Arrives(r)
    /\ UNCHANGED <<db, nextId>>
    /\ Finish(r, "test", <<>>,
              [status |-> 200, backend |-> "Running",
               database |-> "Connected & Working",
               connection_status |-> "Connected",
               collections |-> list_collection_names], 1, 0)

\* ------------------------------------------------------------ environment
IsExternal(d) == d.slug \notin SeedSlugs

\* A blog post created out-of-band.
ExternalInsert(p, pos) ==
    /\ Len(SelectSeq(db["blogpost"], IsExternal)) < MaxExternal
    /\ create_document("blogpost", p, pos)
    /\ UNCHANGED req

\* --------------------------------------------------------- specifications
\* The store's native order is every order for the user collection, where
\* limit=1 returns the first match; for blogpost and contactmessage, where
\* only the order of a listing depends on it, it is insertion order.
End(collection) == Len(db[collection]) + 1

\* Registration and login.
AuthStep(r) ==
    \/ \E body \in RegisterBodies : RegisterCheck(r, body)
    \/ \E pos \in 1..End("user") : RegisterInsert(r, pos)
    \/ \E body \in LoginBodies : Login(r, body)

\* Blog listing, contact and the diagnostic endpoints.
SiteStep(r) ==
    \/ ListFind(r)
    \/ ListSeed(r, End("blogpost"))
    \/ ListRequery(r)
    \/ \E body \in ContactBodies : Contact(r, body, End("contactmessage"))
    \/ read_root(r)
    \/ test_database(r)

External == \E p \in ExternalPosts : ExternalInsert(p, End("blogpost"))

\* Registration and login, dispatched concurrently.
AuthNext == \E r \in Req : AuthStep(r)

SpecAuth == Init /\ [][AuthNext]_vars

\* Blog listing, contact and the diagnostic endpoints, dispatched
\* concurrently, with blog posts appearing out-of-band.
SiteNext == (\E r \in 1..MaxSiteReq : SiteStep(r)) \/ External

SpecSite == Init /\ [][SiteNext]_vars

\* Every handler, dispatched concurrently, the store available.
Next == (\E r \in Req : AuthStep(r) \/ SiteStep(r)) \/ External

Spec == Init /\ [][Next]_vars

\* Requests served one at a time: a request arrives only when none is in
\* flight. No post is created out-of-band.
Quiet == \A q \in Req : ~InFlight(q)

SeqNext ==
    \E r \in Req :
        \/ \E body \in RegisterBodies : Quiet /\ RegisterCheck(r, body)
        \/ \E pos \in 1..End("user") : RegisterInsert(r, pos)
        \/ \E body \in LoginBodies : Quiet /\ Login(r, body)
        \/ Quiet /\ ListFind(r)
        \/ ListSeed(r, End("blogpost"))
        \/ ListRequery(r)
        \/ \E body \in ContactBodies : Quiet /\ Contact(r, body, End("contactmessage"))
        \/ Quiet /\ read_root(r)
        \/ Quiet /\ test_database(r)

SpecSeq == Init /\ [][SeqNext]_vars

\* ---------------------------------------------------------- store failure
\* A persistence call raises (store unavailable). No handler but
\* test_database catches it, so the request ends as a generic server error.
\* The first call of a request:
StoreFailFirst(r, kind, body) ==
    /\ Arrives(r)
    /\ Valid(kind, body)
    /\ UNCHANGED <<db, nextId>>
    /\ Finish(r, kind, body, InternalServerError, 1, 0)

\* A later call of a request in flight:
StoreFail(r) ==
    /\ InFlight(r)
    /\ UNCHANGED <<db, nextId>>
    /\ Finish(r, req[r].kind, req[r].body, InternalServerError,
              req[r].calls + 1, req[r].writes)

\* test_database when db.list_collection_names() raises: caught and reported.
test_database_error(r) ==
    /\ Arrives(r)
    /\ UNCHANGED <<db, nextId>>
    /\ Finish(r, "test", <<>>,
              [status |-> 200, backend |-> "Running",
               database |-> "Connected but Error",
               connection_status |-> "Connected",
               collections |-> {}], 1, 0)

\* One body of each kind is enough to count a request's calls and writes.
FailRegisterBodies == { [name |-> "Ada", email |-> "ada@x.com", password |-> "secret"] }

FailLoginBodies == { [email |-> "ada@x.com", password |-> "secret"] }

FailContactBodies == { [name |-> "Ada", email |-> "ada@x.com", message |-> "hello"] }

FailExternalPosts == { p \in ExternalPosts : p.slug = "draft" }

\* Every handler, dispatched concurrently, any persistence call may fail.
FailNext ==
    \/ \E r \in 1..MaxFailReq :
        \/ \E body \in FailRegisterBodies : RegisterCheck(r, body)
        \/ \E pos \in 1..End("user") : RegisterInsert(r, pos)
        \/ \E body \in FailLoginBodies : Login(r, body)
        \/ ListFind(r)
        \/ ListSeed(r, End("blogpost"))
        \/ ListRequery(r)
        \/ \E body \in FailContactBodies : Contact(r, body, End("contactmessage"))
        \/ read_root(r)
        \/ test_database(r)
        \/ \E body \in FailRegisterBodies : StoreFailFirst(r, "register", body)
        \/ \E body \in FailLoginBodies : StoreFailFirst(r, "login", body)
        \/ \E body \in FailContactBodies : StoreFailFirst(r, "contact", body)
        \/ StoreFailFirst(r, "list", <<>>)
        \/ StoreFail(r)
        \/ test_database_error(r)
    \/ \E p \in FailExternalPosts : ExternalInsert(p, End("blogpost"))

SpecFail == Init /\ [][FailNext]_vars

\* ================================================================ claims
Range(s) == {s[i] : i \in DOMAIN s}

IsDone(r, kind) == Done(r) /\ req[r].kind = kind

\* Register requests that returned ok.
RegisterOk(r) == IsDone(r, "register") /\ req[r].resp.status = 200

\* C1: when register requests run one at a time, a register call whose
\* email no earlier successful register carried succeeds, returns an
\* identifier and adds exactly one User document (with the name, the email
\* and the hash of the password); every later register call with that email
\* fails with 400 "Email already registered" and writes nothing; no two User
\* documents share an email.
C1_SequentialRegister ==
    /\ \A i, j \in DOMAIN db["user"] :
           i # j => db["user"][i].email # db["user"][j].email
    /\ Len(db["user"]) = Cardinality({r \in Req : RegisterOk(r)})
    /\ \A r \in Req :
           IsDone(r, "register") /\ Valid("register", req[r].body) =>
               LET body == req[r].body
                   taken == \E q \in 1..(r - 1) :
                                RegisterOk(q) /\ req[q].body.email = body.email
               IN  IF taken
                   THEN req[r].resp = EmailAlreadyRegistered /\ req[r].writes = 0
                   ELSE /\ req[r].resp.status = 200
                        /\ req[r].resp.ok
                        /\ req[r].writes = 1
                        /\ \E d \in Range(db["user"]) :
                               /\ d.id = req[r].resp.user_id
                               /\ d.email = body.email
                               /\ d.name = body.name
                               /\ d.password_hash = hash_password(body.password)
                               /\ \A e \in Range(db["user"]) :
                                      e.email = body.email => e = d

C1_Witness ==
    \E q, r \in Req :
        /\ q < r
        /\ RegisterOk(q)
        /\ IsDone(r, "register")
        /\ req[r].body.email = req[q].body.email
        /\ req[r].resp = EmailAlreadyRegistered
        /\ Len(db["user"]) = 1

\* Login requests that reached the lookup.
LoginDone(r) == IsDone(r, "login") /\ Valid("login", req[r].body)

UnknownEmail(r) == req[r].users = <<>>

WrongPassword(r) ==
    /\ req[r].users # <<>>
    /\ req[r].users[1].password_hash # hash_password(req[r].body.password)

\* C3: a login whose email matches no User document and a login whose
\* password hashes to something else than the stored hash get the identical
\* response, 401 "Invalid credentials"; a login writes nothing, the user
\* collection holding exactly the documents of the successful registers.
C3_LoginFailuresIndistinguishable ==
    /\ \A r \in Req :
           LoginDone(r) =>
               /\ req[r].writes = 0
               /\ UnknownEmail(r) \/ WrongPassword(r) => req[r].resp = InvalidCredentials
    /\ \A r1, r2 \in Req :
           /\ LoginDone(r1) /\ UnknownEmail(r1)
           /\ LoginDone(r2) /\ WrongPassword(r2)
           => req[r1].resp = req[r2].resp
    /\ Len(db["user"]) = Cardinality({r \in Req : RegisterOk(r)})

C3_Witness ==
    \E r1, r2 \in Req :
        /\ LoginDone(r1) /\ UnknownEmail(r1)
        /\ LoginDone(r2) /\ WrongPassword(r2)
        /\ req[r1].resp = InvalidCredentials
        /\ req[r2].resp = InvalidCredentials

Slugs(posts) == {posts[i].slug : i \in DOMAIN posts}

\* C5: served one at a time from an empty blogpost collection, the first
\* GET /api/blogs inserts the two example posts and returns exactly them;
\* every later one returns the same two posts and inserts nothing; the
\* collection holds exactly those two documents.
C5_LazySeedIdempotent ==
    \A r \in Req :
        IsDone(r, "list") =>
            LET first == \A q \in 1..(r - 1) : req[q].kind # "list"
            IN  /\ req[r].resp.status = 200
                /\ Len(req[r].resp.body) = 2
                /\ Slugs(req[r].resp.body) = SeedSlugs
                /\ req[r].writes = IF first THEN 2 ELSE 0
                /\ Len(db["blogpost"]) = 2
                /\ Slugs(db["blogpost"]) = SeedSlugs
                /\ req[r].resp.body = MapPosts(db["blogpost"])
                /\ \A q \in Req : IsDone(q, "list") => req[q].resp = req[r].resp

C5_Witness ==
    \E q, r \in Req :
        /\ q < r
        /\ IsDone(q, "list") /\ req[q].writes = 2
        /\ IsDone(r, "list") /\ req[r].writes = 0
        /\ req[q].resp = req[r].resp
        /\ Len(db["blogpost"]) = 2

\* Number of inserts issued by the requests so far.
RECURSIVE WritesUpTo(_)
WritesUpTo(n) ==
    IF n = 0 THEN 0
    ELSE WritesUpTo(n - 1) + (IF req[n].pc = "idle" THEN 0 ELSE req[n].writes)

Stored == Len(db["user"]) + Len(db["blogpost"]) + Len(db["contactmessage"])

Externals == Len(SelectSeq(db["blogpost"], IsExternal))

\* C6: a contact request with valid fields returns ok:true with the
\* identifier of the one ContactMessage document it adds, which carries the
\* submitted fields; there is no deduplication (the collection holds one
\* document per valid submission); a request without message or with a
\* malformed email gets the validation error after no persistence call,
\* and no collection changes.
C6_ContactSubmission ==
    /\ Len(db["contactmessage"]) =
           Cardinality({r \in Req : IsDone(r, "contact") /\ req[r].resp.status = 200})
    /\ Stored = WritesUpTo(MaxReq) + Externals
    /\ \A r \in Req :
           IsDone(r, "contact") =>
               LET body == req[r].body
               IN  IF "message" \in DOMAIN body /\ body.email \in EmailStr
                   THEN /\ req[r].resp.status = 200
                        /\ req[r].resp.ok
                        /\ req[r].writes = 1
                        /\ Cardinality({i \in DOMAIN db["contactmessage"] :
                               db["contactmessage"][i].id = req[r].resp.id}) = 1
                        /\ \E d \in Range(db["contactmessage"]) :
                               /\ d.id = req[r].resp.id
                               /\ d.name = body.name
                               /\ d.email = body.email
                               /\ d.message = body.message
                               /\ d.subject = Get(body, "subject", None)
                   ELSE /\ req[r].resp = ValidationError
                        /\ req[r].calls = 0
                        /\ req[r].writes = 0

C6_Witness ==
    \E q, r \in Req :
        /\ q # r
        /\ IsDone(q, "contact") /\ IsDone(r, "contact")
        /\ req[q].body = req[r].body
        /\ req[q].resp.status = 200 /\ req[r].resp.status = 200
        /\ req[q].resp.id # req[r].resp.id
        /\ Len(db["contactmessage"]) = 2

\* C8 as stated: every request issues at most one insert, so none ends
\* with only part of its writes applied.
C8_AtMostOneWrite ==
    \A r \in Req : req[r].pc # "idle" => req[r].writes <= 1

\* C8 as amended: root, /test and login issue no insert, register and
\* contact at most one; list blogs issues none or, when it seeds, two, one
\* after the other, so a store failure between them ends the request with
\* exactly the first example post stored; no other request fails with a
\* write applied, and the store holds exactly the documents written.
C8_WritesPerRequest ==
    /\ Stored = WritesUpTo(MaxReq) + Externals
    /\ \A r \in Req :
           req[r].pc # "idle" =>
               /\ req[r].kind \in {"root", "test", "login"} => req[r].writes = 0
               /\ req[r].kind \in {"register", "contact"} => req[r].writes \in {0, 1}
               /\ req[r].kind = "list" => req[r].writes \in {0, 1, 2}
               /\ Done(r) /\ req[r].resp.status = 200 /\ req[r].kind = "list"
                      => req[r].writes \in {0, 2}
               /\ Done(r) /\ req[r].resp.status = 500 /\ req[r].writes > 0
                      => req[r].kind = "list"

C8_Witness ==
    \E r \in Req :
        /\ IsDone(r, "list")
        /\ req[r].resp = InternalServerError
        /\ req[r].writes = 1
        /\ Slugs(db["blogpost"]) = {"launching-pastel-fintech"}

\* C2: apart from duplicate emails in the user collection, concurrent
\* requests produce no state a sequential execution could not: served one
\* at a time, at most one listing request ever seeds the example posts.
C2_OnlyRegisterHazard ==
    Cardinality({r \in Req : req[r].kind = "list" /\ req[r].writes > 0}) <= 1

\* The registration race itself: both requests returned ok and the user
\* collection holds two documents with their email.
C2_RegisterRace ==
    \E q, r \in Req :
        /\ q # r
        /\ RegisterOk(q) /\ RegisterOk(r)
        /\ req[q].body.email = req[r].body.email
        /\ Cardinality({i \in DOMAIN db["user"] :
               db["user"][i].email = req[r].body.email}) = 2

\* C4: for every register call that returned ok, a login with its email and
\* password returns ok with the registered name and email.
C4_LoginAfterRegister ==
    \A r \in Req :
        RegisterOk(r) =>
            LET body == req[r].body
                users == get_documents("user", [email |-> body.email], 1)
            IN  LoginResponse(users, [email |-> body.email, password |-> body.password])
                    = [status |-> 200, ok |-> TRUE,
                       name |-> body.name, email |-> body.email]

\* A listing request returns in this step.
ListReturns(r) == req[r].pc # "done" /\ req'[r].pc = "done" /\ req'[r].kind = "list"

\* C7: a listing returns every stored document without a tags field with
\* tags = <<>>, and every stored document without a published field with
\* published = TRUE.
C7_RoundTripDefaults ==
    [][\A r \in Req :
           ListReturns(r) /\ req'[r].resp.status = 200 =>
               \A d \in Range(db["blogpost"]) :
                   /\ "tags" \notin DOMAIN d =>
                          \E o \in Range(req'[r].resp.body) :
                              o.slug = d.slug /\ o.tags = <<>>
                   /\ "published" \notin DOMAIN d =>
                          \E o \in Range(req'[r].resp.body) :
                              o.slug = d.slug /\ o.published = TRUE]_vars

\* C9: a listing that finds the blogpost collection non-empty, whether its
\* documents are published or not, inserts nothing: it returns at once.
C9_SeedsOnlyWhenEmpty ==
    [][\A r \in Req :
           req[r].pc = "idle" /\ req'[r].kind = "list" /\ db["blogpost"] # <<>>
               => req'[r].pc = "done" /\ req'[r].writes = 0]_vars

\* C10: with no post created out-of-band, however listing requests
\* interleave the collection holds at most one document per example slug
\* and every listing returns exactly 2 posts.
C10_SeedOncePerSlug ==
    Externals = 0 =>
        /\ \A i, j \in DOMAIN db["blogpost"] :
               i # j => db["blogpost"][i].slug # db["blogpost"][j].slug
        /\ \A r \in Req : IsDone(r, "list") => Len(req[r].resp.body) = 2

====
